---- MODULE Spec2Model ----
(***************************************************************************)
(* A model of src/app/printer.ts: the Printer of the TeamCity reporter.   *)
(* The Printer keeps two maps, fileMessageMap (file id -> message         *)
(* templates) and testConsoleMap (test id -> console logs); addFile walks *)
(* a file's task tree into templates, addTestConsoleLog buffers a log,    *)
(* and handeUpdate evaluates and emits a file's templates when the file   *)
(* is reported with a result whose state is not 'run'.                    *)
(***************************************************************************)
EXTENDS Integers, Sequences, FiniteSets, TLC

(***************************************************************************)
(* Bounds of the model.                                                    *)
(***************************************************************************)
\* console logs recorded in one behaviour
MaxLogs == 2
\* addFile calls in one behaviour
MaxRegs == 2

(***************************************************************************)
(* The task trees handed to the Printer (vitest's File / Suite / Test     *)
(* objects).  FA and FB are two collections of the same file id "f1"      *)
(* (FB is what a re-run collects), FC is a second file.                    *)
(***************************************************************************)
FileObjects == {"FA", "FB", "FC"}

Node(id, name, type, mode, tasks, suite, file) ==
    [id |-> id, name |-> name, type |-> type, mode |-> mode,
     tasks |-> tasks, suite |-> suite, file |-> file]

TaskTable ==
       "FA"  :> Node("f1",  "a'b",    "suite",  "run",  <<"T1", "S1", "S3", "C1", "T5">>, "", "FA")
    @@ "T1"  :> Node("t1",  "one",    "test",   "run",  <<>>, "FA", "FA")
    @@ "S1"  :> Node("s1",  "outer",  "suite",  "run",  <<"T2", "S2", "T8">>, "FA", "FA")
    @@ "T2"  :> Node("t2",  "two",    "test",   "skip", <<>>, "S1", "FA")
    @@ "S2"  :> Node("s2",  "in'ner", "suite",  "run",  <<"T3", "T4">>, "S1", "FA")
    @@ "T3"  :> Node("t3",  "three",  "test",   "run",  <<>>, "S2", "FA")
    @@ "T4"  :> Node("t4",  "four",   "test",   "run",  <<>>, "S2", "FA")
    @@ "T8"  :> Node("t8",  "eight",  "test",   "run",  <<>>, "S1", "FA")
    @@ "S3"  :> Node("s3",  "off",    "suite",  "skip", <<"T9", "T11">>, "FA", "FA")
    @@ "T9"  :> Node("t9",  "nine",   "test",   "skip", <<>>, "S3", "FA")
    @@ "T11" :> Node("t11", "eleven", "test",   "todo", <<>>, "S3", "FA")
    @@ "C1"  :> Node("c1",  "bench",  "custom", "run",  <<>>, "FA", "FA")
    @@ "T5"  :> Node("t5",  "five",   "test",   "todo", <<>>, "FA", "FA")
    @@ "FB"  :> Node("f1",  "a'b",    "suite",  "run",  <<"T6", "S4">>, "", "FB")
    @@ "T6"  :> Node("t1",  "one",    "test",   "run",  <<>>, "FB", "FB")
    @@ "S4"  :> Node("s4",  "late",   "suite",  "run",  <<"T10">>, "FB", "FB")
    @@ "T10" :> Node("t10", "ten",    "test",   "run",  <<>>, "S4", "FB")
    @@ "FC"  :> Node("f2",  "c",      "suite",  "run",  <<"T7">>, "", "FC")
    @@ "T7"  :> Node("t7",  "seven",  "test",   "run",  <<>>, "FC", "FC")

Objects == DOMAIN TaskTable

FileIds == {TaskTable[f].id : f \in FileObjects}

(***************************************************************************)
(* Task results.  A result may be absent; when present its duration and   *)
(* its errors may each be absent (undefined) on their own.                 *)
(***************************************************************************)
Result(state, hasDuration, duration, hasErrors, errors) ==
    [present |-> TRUE, state |-> state, hasDuration |-> hasDuration,
     duration |-> duration, hasErrors |-> hasErrors, errors |-> errors]

NoResult ==
    [present |-> FALSE, state |-> "none", hasDuration |-> FALSE,
     duration |-> 0, hasErrors |-> FALSE, errors |-> <<>>]

Pass5      == Result("pass", TRUE, 5, FALSE, <<>>)
FailAbsent == Result("fail", TRUE, 3, FALSE, <<>>)
FailEmpty  == Result("fail", TRUE, 4, TRUE, <<>>)
FailTwo    == Result("fail", TRUE, 6, TRUE, <<"e1", "e2">>)

\* the results the engine assigns to a test while the run goes on
ResultValues == {NoResult, Pass5, FailAbsent, FailEmpty, FailTwo}

\* the tests whose result the engine assigns during the behaviour
MutableTests == {"T1"}

\* the results of the other tasks, fixed for the whole behaviour
StaticResult(o) ==
    CASE o = "FA"  -> Result("fail", TRUE, 9, TRUE, <<"ef">>)
      [] o = "S1"  -> Result("pass", TRUE, 8, FALSE, <<>>)
      [] o = "S2"  -> Result("fail", TRUE, 2, TRUE, <<"es1", "es2">>)
      [] o = "T3"  -> FailAbsent
      [] o = "T4"  -> FailEmpty
      [] o = "T8"  -> FailAbsent
      [] o = "T6"  -> Result("pass", TRUE, 7, TRUE, <<"e9">>)
      [] o = "S4"  -> Result("fail", TRUE, 1, TRUE, <<>>)
      [] o = "T10" -> FailAbsent
      [] o = "FC"  -> Result("pass", TRUE, 1, FALSE, <<>>)
      [] OTHER     -> NoResult

\* the notifications' results: absent, still running, finished
Running == Result("run", FALSE, 0, FALSE, <<>>)
PackResults == {NoResult, Running, Pass5}

\* the ids notifications and console logs arrive for
NotifyIds == {"f1", "f2", "t1"}
LogIds == {"t1", "t3"}

\* what the sink does during one flush: 0 accepts every line, n throws on
\* the n-th line handed to it
SinkFailAt == {0, 1, 3}

VARIABLES
    result,          \* test object -> its current result (MutableTests)
    fileMessageMap,  \* file id -> sequence of message templates
    testConsoleMap,  \* test id -> sequence of console logs
    emitted,         \* the lines handed to the sink by the last call
    call,            \* the last call made on the Printer and its outcome
    regObj,          \* file id -> the file object of its latest addFile
    regCount,        \* file id -> number of addFile calls
    flushCount,      \* file id -> number of completed flushes
    replaced,        \* file id -> the file object whose pending entry the
                     \* latest addFile for the id overwrote ("" when none)
    summary          \* the summary the last writeSummary call handed over

vars == <<result, fileMessageMap, testConsoleMap, emitted, call, regObj,
          regCount, flushCount, replaced, summary>>

(***************************************************************************)
(* The lines handed to the sink.  The message builders (SuitMessage,      *)
(* TestMessage), escape and MissingResultError are not part of            *)
(* printer.ts; a line is modelled by its shape (kind and arguments), not  *)
(* by its wire text.  A TestMessage is built from its test, so every line *)
(* it makes carries that test's id as its flow.                            *)
(***************************************************************************)
Line(kind, flow, name, text, num) ==
    [kind |-> kind, flow |-> flow, name |-> name, text |-> text, num |-> num]

\* the empty string: what filter(Boolean) drops
EmptyLine == Line("", "", "", "", 0)

\* escape(name): the sanitizer, total, quoting the characters of the format
escape(name) ==
    CASE name = "a'b"    -> "a|'b"
      [] name = "in'ner" -> "in|'ner"
      [] OTHER           -> name

SuitStarted(id, name) == Line("suiteStarted", id, name, "", 0)
SuitFinished(id, name) == Line("suiteFinished", id, "", "", 0)

TestStarted(t) == Line("testStarted", TaskTable[t].id, TaskTable[t].name, "", 0)
TestIgnored(t) == Line("testIgnored", TaskTable[t].id, TaskTable[t].name, "", 0)
TestLog(t, log) == Line("testLog", TaskTable[t].id, TaskTable[t].name, log.type, log.content)
TestFail(t, error) == Line("testFailed", TaskTable[t].id, TaskTable[t].name, error, 0)
TestFinished(t, duration) == Line("testFinished", TaskTable[t].id, TaskTable[t].name, "", duration)

\* new MissingResultError(test)
MissingResultError(t) == "MissingResultError"

(***************************************************************************)
(* Message templates: PotentialMessage = string | (() => string|string[]). *)
(* A literal holds its line; a producer is the closure of handleTest over  *)
(* its test object.                                                        *)
(***************************************************************************)
Literal(line) == [lit |-> TRUE, line |-> line, test |-> ""]
Producer(t) == [lit |-> FALSE, line |-> EmptyLine, test |-> t]

\* test.result, as the task object holds it now
ResultOf(o) == IF o \in MutableTests THEN result[o] ELSE StaticResult(o)

\* x?.errors ?? next: the errors of a result when they are not null/undefined
HasErrors(o) == ResultOf(o).present /\ ResultOf(o).hasErrors

getTestErrors(t) ==
    IF HasErrors(t) THEN ResultOf(t).errors
    ELSE IF HasErrors(TaskTable[t].suite) THEN ResultOf(TaskTable[t].suite).errors
    ELSE IF HasErrors(TaskTable[t].file) THEN ResultOf(TaskTable[t].file).errors
    ELSE <<MissingResultError(t)>>

\* faulty variant: a test without result is not taken as failed
IsFailStateOnly(t) == ResultOf(t).present /\ ResultOf(t).state = "fail"

\* const fail = (test.result == null) || test.result.state === 'fail'
IsFail(t) == (~ResultOf(t).present) \/ ResultOf(t).state = "fail"

\* faulty variant: the logs are looked up under the test's name
LogsOfByName(t) ==
    IF TaskTable[t].name \in DOMAIN testConsoleMap
    THEN testConsoleMap[TaskTable[t].name] ELSE <<>>

\* this.testConsoleMap.get(test.id) ?? []
LogsOf(t) ==
    IF TaskTable[t].id \in DOMAIN testConsoleMap
    THEN testConsoleMap[TaskTable[t].id] ELSE <<>>

\* test.result?.duration ?? 0
DurationOf(t) ==
    IF ResultOf(t).present /\ ResultOf(t).hasDuration THEN ResultOf(t).duration ELSE 0

Truthy(line) == line # EmptyLine

\* faulty variant: the failure lines are put before the log lines
RunProducerFailFirst(t) ==
    LET logs == LogsOf(t)
        logsMessages == [i \in 1..Len(logs) |-> TestLog(t, logs[i])]
        errors == getTestErrors(t)
        filedMessages == IF IsFail(t)
                         THEN [i \in 1..Len(errors) |-> TestFail(t, errors[i])]
                         ELSE <<>>
    IN SelectSeq(<<TestStarted(t)>> \o filedMessages \o logsMessages
                   \o <<TestFinished(t, DurationOf(t))>>, Truthy)

\* the body of the producer handleTest returns, run at flush time
RunProducer(t) ==
    LET logs == LogsOf(t)
        logsMessages == [i \in 1..Len(logs) |-> TestLog(t, logs[i])]
        errors == getTestErrors(t)
        filedMessages == IF IsFail(t)
                         THEN [i \in 1..Len(errors) |-> TestFail(t, errors[i])]
                         ELSE <<>>
    IN SelectSeq(<<TestStarted(t)>> \o logsMessages \o filedMessages
                   \o <<TestFinished(t, DurationOf(t))>>, Truthy)

handleTest(t) ==
    IF TaskTable[t].mode = "skip" THEN Literal(TestIgnored(t)) ELSE Producer(t)

RECURSIVE handleTask(_)
RECURSIVE FlatMapTasks(_)

handleSuite(s) ==
    <<Literal(SuitStarted(TaskTable[TaskTable[s].file].id, escape(TaskTable[s].name)))>>
      \o FlatMapTasks(TaskTable[s].tasks)
      \o <<Literal(SuitFinished(TaskTable[TaskTable[s].file].id, escape(TaskTable[s].name)))>>

\* faulty variant: a suite is entered whatever its mode
handleTaskAnyMode(task) ==
    IF TaskTable[task].type = "test" THEN <<handleTest(task)>>
    ELSE IF TaskTable[task].type = "suite" THEN handleSuite(task)
    ELSE <<>>

handleTask(task) ==
    IF TaskTable[task].type = "test" THEN <<handleTest(task)>>
    ELSE IF TaskTable[task].type = "suite" /\ TaskTable[task].mode = "run"
         THEN handleSuite(task)
    ELSE <<>>

\* faulty variant: the children are walked last to first
RECURSIVE FlatMapTasksReversed(_)
FlatMapTasksReversed(tasks) ==
    IF tasks = <<>> THEN <<>>
    ELSE FlatMapTasksReversed(Tail(tasks)) \o handleTask(Head(tasks))

\* tasks.flatMap(this.handleTask)
FlatMapTasks(tasks) ==
    IF tasks = <<>> THEN <<>>
    ELSE handleTask(Head(tasks)) \o FlatMapTasks(Tail(tasks))

\* the messages addFile stores for a file
FileMessages(f) ==
    <<Literal(SuitStarted(TaskTable[f].id, escape(TaskTable[f].name)))>>
      \o FlatMapTasks(TaskTable[f].tasks)
      \o <<Literal(SuitFinished(TaskTable[f].id, escape(TaskTable[f].name)))>>

\* typeof message === 'string' ? message : message()
EvalMessage(m) == IF m.lit THEN <<m.line>> ELSE RunProducer(m.test)

\* messages.flatMap(...): every template evaluated, in stored order
RECURSIVE FlatMapEval(_)
FlatMapEval(messages) ==
    IF messages = <<>> THEN <<>>
    ELSE EvalMessage(Head(messages)) \o FlatMapEval(Tail(messages))

\* faulty variant: the state of the result is not looked at
ShouldFlushAnyState(id, res) == id \in DOMAIN fileMessageMap /\ res.present

\* faulty variant: only a failed result flushes the file
ShouldFlushOnFail(id, res) ==
    id \in DOMAIN fileMessageMap /\ res.present /\ res.state = "fail"

\* (messages != null) && (result != null) && result.state !== 'run'
ShouldFlush(id, res) ==
    id \in DOMAIN fileMessageMap /\ res.present /\ res.state # "run"

\* faulty variant: the entry is not deleted after the flush
DeleteEntryKept(id) == fileMessageMap

\* faulty variant: the flush clears the whole map
DeleteEntryAll(id) == <<>>

\* this.fileMessageMap.delete(id)
DeleteEntry(id) ==
    [k \in DOMAIN fileMessageMap \ {id} |-> fileMessageMap[k]]

\* faulty variant: an entry that is already pending is kept
SetEntryKeepFirst(id, messages) ==
    IF id \in DOMAIN fileMessageMap THEN fileMessageMap
    ELSE [k \in DOMAIN fileMessageMap \cup {id} |->
            IF k = id THEN messages ELSE fileMessageMap[k]]

\* faulty variant: the entry is deleted even when the sink threw
AfterForEachAlways(id, threw) == DeleteEntry(id)

\* the statement after the forEach is reached only when the forEach
\* returns: a throw of the sink leaves the map as it was
AfterForEach(id, threw) == IF threw THEN fileMessageMap ELSE DeleteEntry(id)

\* this.fileMessageMap.set(file.id, messages)
SetEntry(id, messages) ==
    [k \in DOMAIN fileMessageMap \cup {id} |->
        IF k = id THEN messages ELSE fileMessageMap[k]]

\* faulty variant: a new log is put in front of the earlier ones
PushLogFront(id, log) ==
    IF id \in DOMAIN testConsoleMap
    THEN [testConsoleMap EXCEPT ![id] = <<log>> \o @]
    ELSE [k \in DOMAIN testConsoleMap \cup {id} |->
            IF k = id THEN <<log>> ELSE testConsoleMap[k]]

\* messages.push(log) or this.testConsoleMap.set(id, [log])
PushLog(id, log) ==
    IF id \in DOMAIN testConsoleMap
    THEN [testConsoleMap EXCEPT ![id] = Append(@, log)]
    ELSE [k \in DOMAIN testConsoleMap \cup {id} |->
            IF k = id THEN <<log>> ELSE testConsoleMap[k]]

\* faulty variant: the failing line is skipped and the rest still emitted
HandedSkipping(lines, failAt) ==
    IF failAt \in 1..Len(lines)
    THEN SubSeq(lines, 1, failAt - 1) \o SubSeq(lines, failAt + 1, Len(lines))
    ELSE lines

\* the lines forEach hands to the sink before the sink throws on the
\* failAt-th one (all of them when it never throws)
Handed(lines, failAt) ==
    IF failAt \in 1..Len(lines) THEN SubSeq(lines, 1, failAt - 1) ELSE lines

(***************************************************************************)
(* The run summary.  writeSummary reads a tree variable `files` that the  *)
(* class does not own; it is taken here as the argument of the call (the  *)
(* root tasks of the run): nothing, one task, or an array of tasks.        *)
(***************************************************************************)
NullTasks == [kind |-> "null", one |-> "", many |-> <<>>]
OneTask(o) == [kind |-> "one", one |-> o, many |-> <<>>]
ManyTasks(tasks) == [kind |-> "array", one |-> "", many |-> tasks]

\* the arguments writeSummary is called with
SummaryInputs ==
    {NullTasks} \cup {OneTask(f) : f \in FileObjects}
      \cup {ManyTasks(<<>>)} \cup {ManyTasks(<<f>>) : f \in FileObjects}
      \cup {ManyTasks(<<fg[1], fg[2]>>) :
               fg \in {x \in FileObjects \X FileObjects : x[1] # x[2]}}

toArray(array) ==
    IF array.kind = "null" THEN <<>>
    ELSE IF array.kind = "array" THEN array.many
    ELSE <<array.one>>

RECURSIVE getSuites(_)
RECURSIVE getSuitesEach(_)
\* toArray(suites).flatMap(s => s.type === 'suite' ? [s, ...getSuites(s.tasks)] : [])
getSuites(suites) == getSuitesEach(toArray(suites))

getSuitesEach(arr) ==
    IF arr = <<>> THEN <<>>
    ELSE (IF TaskTable[Head(arr)].type = "suite"
          THEN <<Head(arr)>> \o getSuites(ManyTasks(TaskTable[Head(arr)].tasks))
          ELSE <<>>)
         \o getSuitesEach(Tail(arr))

\* faulty variant: only tasks of type test are taken as tests
isAtomTestOnlyTest(s) == TaskTable[s].type = "test"

isAtomTest(s) == TaskTable[s].type = "test" \/ TaskTable[s].type = "custom"

RECURSIVE getTests(_)
RECURSIVE getTestsOuter(_)
RECURSIVE getTestsInner(_)
getTests(files) == getTestsOuter(toArray(files))

\* for (const s of arraySuites)
getTestsOuter(arraySuites) ==
    IF arraySuites = <<>> THEN <<>>
    ELSE (IF isAtomTest(Head(arraySuites)) THEN <<Head(arraySuites)>>
          ELSE getTestsInner(TaskTable[Head(arraySuites)].tasks))
         \o getTestsOuter(Tail(arraySuites))

\* for (const task of s.tasks)
getTestsInner(tasks) ==
    IF tasks = <<>> THEN <<>>
    ELSE (IF isAtomTest(Head(tasks)) THEN <<Head(tasks)>>
          ELSE getTests(OneTask(Head(tasks))))
         \o getTestsInner(Tail(tasks))

\* error.stack: the stack text of an error
StackOf(error) == <<"stack", error>>

\* the entries one failed suite adds to suiteErrors
SuiteErrorsOf(suite) ==
    LET errors == IF HasErrors(suite) THEN ResultOf(suite).errors ELSE <<>>
    IN [i \in 1..Len(errors) |->
           [file |-> TaskTable[suite].name, error |-> StackOf(errors[i])]]

RECURSIVE SuiteErrorsAll(_)
SuiteErrorsAll(failedSuites) ==
    IF failedSuites = <<>> THEN <<>>
    ELSE SuiteErrorsOf(Head(failedSuites)) \o SuiteErrorsAll(Tail(failedSuites))

\* suites.filter(i => i.result?.errors): an array, empty or not, is truthy
FailedSuites(suites) == SelectSeq(suites, HasErrors)

\* tests.filter(i => i.result?.state === 'fail')
FailedTests(tests) ==
    SelectSeq(tests, LAMBDA i : ResultOf(i).present /\ ResultOf(i).state = "fail")

\* the summary writeSummary builds from `files`
TestRunSummary(files) ==
    LET suites == getSuites(files)
        tests == getTests(files)
        failedSuites == FailedSuites(suites)
        failedTests == FailedTests(tests)
    IN [written |-> TRUE, files |-> files,
        failedSuitesCount |-> Len(failedSuites),
        totalSuitesCount |-> Len(suites),
        failedTestsCount |-> Len(failedTests),
        totalTestsCount |-> Len(tests),
        suiteErrors |-> SuiteErrorsAll(failedSuites)]

NoSummary ==
    [written |-> FALSE, files |-> NullTasks, failedSuitesCount |-> 0,
     totalSuitesCount |-> 0, failedTestsCount |-> 0, totalTestsCount |-> 0,
     suiteErrors |-> <<>>]

(***************************************************************************)
(* The state after construction and the operations.                        *)
(***************************************************************************)
\* the last call: its arguments and its outcome.  For a notification that
\* found its file pending, failedAt is the index of the line on which the
\* sink threw (0 when it did not), after is the operation called just
\* before it, and prior holds the lines the sink had taken in that call
\* when it was a flush of the same id cut short by the sink
NoCall ==
    [op |-> "none", id |-> "", res |-> NoResult, flushed |-> FALSE, threw |-> FALSE,
     failedAt |-> 0, after |-> "", prior |-> <<>>]

Called(op, id, res, flushed, threw) ==
    [op |-> op, id |-> id, res |-> res, flushed |-> flushed, threw |-> threw,
     failedAt |-> 0, after |-> "", prior |-> <<>>]

\* the number of console logs recorded so far
LogTotal(map) ==
    LET RECURSIVE Sum(_)
        Sum(S) == IF S = {} THEN 0
                  ELSE LET k == CHOOSE x \in S : TRUE
                       IN Len(map[k]) + Sum(S \ {k})
    IN Sum(DOMAIN map)

RegTotal == LET RECURSIVE Sum(_)
                Sum(S) == IF S = {} THEN 0
                          ELSE LET k == CHOOSE x \in S : TRUE
                               IN regCount[k] + Sum(S \ {k})
            IN Sum(FileIds)

Init ==
    /\ result = [t \in MutableTests |-> NoResult]
    /\ fileMessageMap = <<>>
    /\ testConsoleMap = <<>>
    /\ emitted = <<>>
    /\ call = NoCall
    /\ regObj = [i \in FileIds |-> ""]
    /\ regCount = [i \in FileIds |-> 0]
    /\ flushCount = [i \in FileIds |-> 0]
    /\ replaced = [i \in FileIds |-> ""]
    /\ summary = NoSummary

\* the engine assigns a test's result (the task object is shared with the
\* closures the Printer holds)
SetResult(t, r) ==
    /\ r # result[t]
    /\ result' = [result EXCEPT ![t] = r]
    /\ emitted' = <<>>
    /\ call' = Called("setResult", "", NoResult, FALSE, FALSE)
    /\ UNCHANGED <<fileMessageMap, testConsoleMap, regObj, regCount, flushCount,
                   replaced, summary>>

addFile(f) ==
    /\ RegTotal < MaxRegs
    /\ fileMessageMap' = SetEntry(TaskTable[f].id, FileMessages(f))
    /\ regObj' = [regObj EXCEPT ![TaskTable[f].id] = f]
    /\ regCount' = [regCount EXCEPT ![TaskTable[f].id] = @ + 1]
    /\ replaced' = [replaced EXCEPT ![TaskTable[f].id] =
                       IF TaskTable[f].id \in DOMAIN fileMessageMap
                       THEN regObj[TaskTable[f].id] ELSE ""]
    /\ emitted' = <<>>
    /\ call' = Called("addFile", "", NoResult, FALSE, FALSE)
    /\ UNCHANGED <<result, testConsoleMap, flushCount, summary>>

\* the content of a log is its arrival number, its type alternates
addTestConsoleLog(id) ==
    /\ LogTotal(testConsoleMap) < MaxLogs
    /\ LET n == LogTotal(testConsoleMap) + 1
           log == [type |-> IF n % 2 = 1 THEN "stdout" ELSE "stderr", content |-> n]
       IN testConsoleMap' = PushLog(id, log)
    /\ emitted' = <<>>
    /\ call' = Called("addTestConsoleLog", "", NoResult, FALSE, FALSE)
    /\ UNCHANGED <<result, fileMessageMap, regObj, regCount, flushCount, replaced,
                   summary>>

\* the sink is asked for lines only by a notification that flushes
handeUpdate(id, res, failAt) ==
    /\ failAt = 0 \/ ShouldFlush(id, res)
    /\ IF ShouldFlush(id, res)
       THEN LET lines == FlatMapEval(fileMessageMap[id])
                threw == failAt \in 1..Len(lines)
            IN /\ emitted' = Handed(lines, failAt)
               /\ fileMessageMap' = AfterForEach(id, threw)
               /\ flushCount' = IF threw THEN flushCount
                                ELSE [flushCount EXCEPT ![id] = @ + 1]
               /\ call' = [Called("handeUpdate", id, res, ~threw, threw) EXCEPT
                             !.failedAt = IF threw THEN failAt ELSE 0,
                             !.after = call.op,
                             !.prior = IF call.op = "handeUpdate" /\ call.threw
                                          /\ call.id = id
                                       THEN emitted ELSE <<>>]
       ELSE /\ emitted' = <<>>
            /\ call' = Called("handeUpdate", id, res, FALSE, FALSE)
            /\ UNCHANGED <<fileMessageMap, flushCount>>
    /\ UNCHANGED <<result, testConsoleMap, regObj, regCount, replaced,
                   summary>>

Next ==
    \/ \E t \in MutableTests, r \in ResultValues : SetResult(t, r)
    \/ \E f \in FileObjects : addFile(f)
    \/ \E id \in LogIds : addTestConsoleLog(id)
    \/ \E id \in NotifyIds, res \in PackResults, failAt \in SinkFailAt :
          handeUpdate(id, res, failAt)

Spec == Init /\ [][Next]_vars

\* the calls that touch fileMessageMap: registrations and notifications
\* (results and console logs never add or remove an entry)
NextLive ==
    \/ \E f \in FileObjects : addFile(f)
    \/ \E id \in NotifyIds, res \in PackResults, failAt \in SinkFailAt :
          handeUpdate(id, res, failAt)

\* the run in which every file is in the end reported finished to a sink
\* that takes its lines: a finished notification for an id, accepted whole
\* by the sink, cannot stay possible forever without happening
SpecLive ==
    /\ Init /\ [][NextLive]_vars
    /\ \A id \in FileIds : WF_vars(handeUpdate(id, Pass5, 0))

\* the summary is built and handed over: this.printer.writeSummary(summary)
writeSummary(files) ==
    /\ summary' = TestRunSummary(files)
    /\ emitted' = <<>>
    /\ call' = Called("writeSummary", "", NoResult, FALSE, FALSE)
    /\ UNCHANGED <<result, fileMessageMap, testConsoleMap, regObj, regCount,
                   flushCount, replaced>>

\* the summary reads the task objects only: the runs of the test runner
\* assigning results and of writeSummary being called on root tasks
NextSummary ==
    \/ \E t \in MutableTests, r \in ResultValues : SetResult(t, r)
    \/ \E files \in SummaryInputs : writeSummary(files)

SpecSummary == Init /\ [][NextSummary]_vars

(***************************************************************************)
(* Vocabulary of the properties.                                           *)
(***************************************************************************)
Range(s) == {s[i] : i \in 1..Len(s)}

\* the last call was a terminal notification that flushed its file whole
Flushed == call.op = "handeUpdate" /\ call.flushed

\* the last call was a notification with a present result, not 'run'
Terminal == call.op = "handeUpdate" /\ call.res.present /\ call.res.state # "run"

(***************************************************************************)
(* C1: a file registered once is flushed at most once: once a terminal    *)
(* notification has flushed it, every further notification for its id     *)
(* hands no line to the sink.                                              *)
(***************************************************************************)
C1_FlushedAtMostOnce ==
    \A id \in FileIds :
        regCount[id] = 1 =>
            /\ flushCount[id] <= 1
            /\ (call.op = "handeUpdate" /\ call.id = id /\ flushCount[id] = 1
                    /\ ~call.flushed) => emitted = <<>>

\* a second terminal notification for a file registered once and flushed
C1_Witness ==
    /\ regCount["f1"] = 1 /\ flushCount["f1"] = 1
    /\ Terminal /\ call.id = "f1" /\ ~call.flushed /\ emitted = <<>>

(***************************************************************************)
(* C2 as claimed: a flushed file id never has a pending entry again and   *)
(* is never flushed a second time, whatever addFile calls follow.          *)
(***************************************************************************)
C2_NeverAgain ==
    \A id \in FileIds :
        flushCount[id] >= 1 =>
            id \notin DOMAIN fileMessageMap /\ flushCount[id] <= 1

(***************************************************************************)
(* C2 amended: an entry of fileMessageMap appears only by an addFile call *)
(* and disappears only by the completed flush of its own id; a completed  *)
(* flush leaves its id without entry, and the completed flushes of an id  *)
(* never outnumber its registrations.                                      *)
(***************************************************************************)
C2_EntryLifeStep ==
    \A id \in FileIds :
        /\ (id \notin DOMAIN fileMessageMap /\ id \in DOMAIN fileMessageMap')
              => call'.op = "addFile" /\ regCount'[id] = regCount[id] + 1
        /\ (id \in DOMAIN fileMessageMap /\ id \notin DOMAIN fileMessageMap')
              => call'.op = "handeUpdate" /\ call'.flushed /\ call'.id = id
        /\ (call'.op = "handeUpdate" /\ call'.flushed /\ call'.id = id)
              => id \in DOMAIN fileMessageMap /\ id \notin DOMAIN fileMessageMap'

\* C2 amended, whole: the counts in every state, the entry's life in
\* every step
C2_EntryLife ==
    /\ [](\A id \in FileIds :
            /\ flushCount[id] <= regCount[id]
            /\ id \in DOMAIN fileMessageMap => flushCount[id] < regCount[id])
    /\ [][C2_EntryLifeStep]_vars

\* a file id registered again after its flush, and flushed again
C2_Witness ==
    /\ regCount["f1"] = 2 /\ flushCount["f1"] = 2
    /\ Flushed /\ call.id = "f1" /\ "f2" \notin DOMAIN fileMessageMap

\* the file object whose messages the last notification found pending
FlushedFile == regObj[call.id]

IsPrefix(a, b) == Len(a) <= Len(b) /\ a = SubSeq(b, 1, Len(a))

\* the lines of a test, as the producer makes them from the present state
TestLines(t) ==
    IF TaskTable[t].mode = "skip" THEN <<TestIgnored(t)>> ELSE RunProducer(t)

\* pre-order walk of a task tree in declared child order; only suites in
\* run mode are entered and bracketed, other suites and other kinds of
\* task give nothing
RECURSIVE PreOrder(_)
RECURSIVE PreOrderAll(_)
PreOrder(o) ==
    IF TaskTable[o].type = "test" THEN TestLines(o)
    ELSE IF TaskTable[o].type = "suite" /\ TaskTable[o].mode = "run"
         THEN <<SuitStarted(TaskTable[TaskTable[o].file].id, escape(TaskTable[o].name))>>
                \o PreOrderAll(TaskTable[o].tasks)
                \o <<SuitFinished(TaskTable[TaskTable[o].file].id, escape(TaskTable[o].name))>>
    ELSE <<>>

PreOrderAll(tasks) ==
    IF tasks = <<>> THEN <<>> ELSE PreOrder(Head(tasks)) \o PreOrderAll(Tail(tasks))

\* the same walk with every suite entered and bracketed, whatever its mode
RECURSIVE PreOrderEvery(_)
RECURSIVE PreOrderEveryAll(_)
PreOrderEvery(o) ==
    IF TaskTable[o].type = "test" THEN TestLines(o)
    ELSE IF TaskTable[o].type = "suite"
         THEN <<SuitStarted(TaskTable[TaskTable[o].file].id, escape(TaskTable[o].name))>>
                \o PreOrderEveryAll(TaskTable[o].tasks)
                \o <<SuitFinished(TaskTable[TaskTable[o].file].id, escape(TaskTable[o].name))>>
    ELSE <<>>

PreOrderEveryAll(tasks) ==
    IF tasks = <<>> THEN <<>>
    ELSE PreOrderEvery(Head(tasks)) \o PreOrderEveryAll(Tail(tasks))

\* suite-started and suite-finished lines nest: no prefix closes more
\* suites than it opened, and the whole sequence closes them all
Opened(s, n) == Cardinality({i \in 1..n : s[i].kind = "suiteStarted"})
Closed(s, n) == Cardinality({i \in 1..n : s[i].kind = "suiteFinished"})
Balanced(s) ==
    /\ \A n \in 1..Len(s) : Closed(s, n) <= Opened(s, n)
    /\ Closed(s, Len(s)) = Opened(s, Len(s))
    /\ s[1].kind = "suiteStarted" /\ s[Len(s)].kind = "suiteFinished"

(***************************************************************************)
(* C3 as claimed: the lines emitted at a file's flush are the pre-order   *)
(* walk of its task tree in which every child suite gives its started     *)
(* line, its children and its finished line, and every test its lines.    *)
(***************************************************************************)
C3_PreOrderEverySuite ==
    Flushed => emitted = PreOrderEvery(FlushedFile)

(***************************************************************************)
(* C3 amended: the lines emitted at a file's completed flush are the      *)
(* pre-order walk of its tree in declared child order in which only the   *)
(* suites in run mode are bracketed and entered (other suites and tasks   *)
(* that are neither test nor suite give nothing); the sequence is fixed   *)
(* by the tree, the results and each test's logs as they stand at the     *)
(* notification, whatever order they arrived in; the brackets nest; a     *)
(* flush the sink cuts short has emitted a prefix of that sequence.       *)
(***************************************************************************)
C3_PreOrder ==
    /\ Flushed => emitted = PreOrder(FlushedFile) /\ Balanced(emitted)
    /\ (call.op = "handeUpdate" /\ call.threw) =>
          IsPrefix(emitted, PreOrder(FlushedFile)) /\ emitted # PreOrder(FlushedFile)

\* a flush of the tree with nested suites, with a failed result and logs
\* for two of its tests, the last log recorded after the registration,
\* just before the notification
C3_Witness ==
    /\ Flushed /\ FlushedFile = "FA" /\ call.after = "addTestConsoleLog"
    /\ LogsOf("T1") # <<>> /\ LogsOf("T3") # <<>> /\ result["T1"] = FailTwo

(***************************************************************************)
(* Tests of a file and the lines emitted for one test.                     *)
(***************************************************************************)
\* every test below a task, through suites of any mode
RECURSIVE AllTests(_)
AllTests(o) ==
    IF TaskTable[o].type = "test" THEN {o}
    ELSE UNION {AllTests(TaskTable[o].tasks[i]) : i \in 1..Len(TaskTable[o].tasks)}

\* the tests below a task that are in no suite whose mode is not run
RECURSIVE WalkedTests(_)
WalkedTests(o) ==
    IF TaskTable[o].type = "test" THEN {o}
    ELSE IF TaskTable[o].type = "suite" /\ TaskTable[o].mode = "run"
         THEN UNION {WalkedTests(TaskTable[o].tasks[i]) : i \in 1..Len(TaskTable[o].tasks)}
    ELSE {}

TestKinds == {"testStarted", "testIgnored", "testLog", "testFailed", "testFinished"}

\* the positions of the emitted lines of one kind that belong to a test
Pos(t, kind) ==
    {i \in 1..Len(emitted) : emitted[i].flow = TaskTable[t].id /\ emitted[i].kind = kind}

PosAny(t) == UNION {Pos(t, k) : k \in TestKinds}

\* the console logs recorded for the test's id
LogCount(t) ==
    IF TaskTable[t].id \in DOMAIN testConsoleMap
    THEN Len(testConsoleMap[TaskTable[t].id]) ELSE 0

\* the test has no result or its result state is fail
Failed(t) == ResultOf(t) = NoResult \/ ResultOf(t).state = "fail"

ExpectedCount(t) ==
    IF TaskTable[t].mode = "skip" THEN 1
    ELSE 2 + LogCount(t) + (IF Failed(t) THEN Len(getTestErrors(t)) ELSE 0)

(***************************************************************************)
(* C4 as claimed: every test of a flushed file has exactly 1 line if its  *)
(* mode is skip and 2 + logCount + (failed ? errorCount : 0) otherwise.    *)
(***************************************************************************)
C4_CountEveryTest ==
    Flushed => \A t \in AllTests(FlushedFile) :
                  Cardinality(PosAny(t)) = ExpectedCount(t)

(***************************************************************************)
(* C4 amended: every test of a flushed file that is in no suite whose     *)
(* mode is not run has exactly 1 line if its mode is skip and             *)
(* 2 + logCount + (failed ? errorCount : 0) otherwise, errorCount being   *)
(* the length of the list getTestErrors resolves; a test inside a suite   *)
(* that is not in run mode has no line at all.                             *)
(***************************************************************************)
C4_CountWalkedTest ==
    Flushed => \A t \in AllTests(FlushedFile) :
                  Cardinality(PosAny(t)) =
                     IF t \in WalkedTests(FlushedFile) THEN ExpectedCount(t) ELSE 0

\* a failed test with two logs and two errors gave six lines, a skipped
\* one gave one, a test without result gave three
C4_Witness ==
    /\ Flushed /\ FlushedFile = "FA" /\ result["T1"] = FailTwo
    /\ LogCount("T1") = 2 /\ Cardinality(PosAny("T1")) = 6
    /\ Cardinality(PosAny("T2")) = 1 /\ Cardinality(PosAny("T5")) = 3

\* the one started line is the first of the test's lines, the one finished
\* line the last, the log lines come before the failure lines, and no
\* line of anything else lies between started and finished
Framed(t) ==
    /\ Cardinality(Pos(t, "testStarted")) = 1
    /\ Cardinality(Pos(t, "testFinished")) = 1
    /\ \A s \in Pos(t, "testStarted"), f \in Pos(t, "testFinished") :
          /\ s < f
          /\ \A i \in Pos(t, "testLog") \cup Pos(t, "testFailed") : s < i /\ i < f
          /\ \A i \in s..f : i \in PosAny(t)
    /\ \A i \in Pos(t, "testLog"), j \in Pos(t, "testFailed") : i < j
    /\ Pos(t, "testIgnored") = {}

(***************************************************************************)
(* C5 as claimed: every test whose mode is not skip, in any flushed file, *)
(* has one started line first, one finished line last, and its log lines  *)
(* then its failure lines between them.                                    *)
(***************************************************************************)
C5_FramedEveryTest ==
    Flushed => \A t \in AllTests(FlushedFile) :
                  TaskTable[t].mode # "skip" => Framed(t)

(***************************************************************************)
(* C5 amended: every test whose mode is not skip and that is in no suite  *)
(* whose mode is not run, in any flushed file, has one started line       *)
(* first, one finished line last, and its log lines then its failure      *)
(* lines between them.                                                     *)
(***************************************************************************)
C5_FramedWalkedTest ==
    Flushed => \A t \in WalkedTests(FlushedFile) :
                  TaskTable[t].mode # "skip" => Framed(t)

\* a flushed test with log lines and failure lines between its started
\* and finished lines
C5_Witness ==
    /\ Flushed /\ FlushedFile = "FA" /\ result["T1"] = FailTwo
    /\ Pos("T1", "testLog") # {} /\ Cardinality(Pos("T1", "testFailed")) = 2
    /\ Framed("T1")

(***************************************************************************)
(* C6: a notification whose id has no pending entry, or whose result is   *)
(* absent, or whose result state is 'run', hands no line to the sink,     *)
(* raises nothing and leaves fileMessageMap and testConsoleMap as they    *)
(* were.                                                                   *)
(***************************************************************************)
C6_NoOpStep ==
    (/\ call'.op = "handeUpdate"
     /\ \/ call'.id \notin DOMAIN fileMessageMap
        \/ ~call'.res.present
        \/ call'.res.state = "run")
    => /\ fileMessageMap' = fileMessageMap
       /\ testConsoleMap' = testConsoleMap
       /\ emitted' = <<>>
       /\ ~call'.threw /\ ~call'.flushed

\* C6: every step of the Printer is such a step
C6_NoOp == [][C6_NoOpStep]_vars

\* a 'run' notification for a file with a pending entry left it pending
C6_Witness ==
    /\ call.op = "handeUpdate" /\ call.id = "f1" /\ call.res = Running
    /\ "f1" \in DOMAIN fileMessageMap /\ emitted = <<>> /\ ~call.threw

(***************************************************************************)
(* C7: the lines of a test show its result and its console logs as they   *)
(* stand when the file is flushed: every log recorded for its id, the     *)
(* duration of its present result, the errors of its present failed       *)
(* result, and no failure line when its present result is not a failure.   *)
(***************************************************************************)
C7_StateAtFlush ==
    Flushed => \A t \in WalkedTests(FlushedFile) :
        TaskTable[t].mode # "skip" =>
            /\ \A i \in 1..LogCount(t) :
                  TestLog(t, testConsoleMap[TaskTable[t].id][i]) \in Range(emitted)
            /\ TestFinished(t, IF ResultOf(t).present /\ ResultOf(t).hasDuration
                                THEN ResultOf(t).duration ELSE 0) \in Range(emitted)
            /\ (ResultOf(t).present /\ ResultOf(t).state = "fail")
                  => \A i \in 1..Len(ResultOf(t).errors) :
                        TestFail(t, ResultOf(t).errors[i]) \in Range(emitted)
            /\ (ResultOf(t).present /\ ResultOf(t).state # "fail")
                  => Pos(t, "testFailed") = {}

\* the failed result of T1 was assigned after addFile, just before the
\* notification, and the flush shows it along with the only log of the run
C7_Witness ==
    /\ Flushed /\ FlushedFile = "FA" /\ call.after = "setResult"
    /\ result["T1"] = FailTwo /\ LogCount("T1") = 1 /\ LogCount("T3") = 0
    /\ TestFinished("T1", 6) \in Range(emitted)
    /\ TestFail("T1", "e2") \in Range(emitted)
    /\ Cardinality(Pos("T1", "testLog")) = 1

\* the failure lines of a test, in emitted order
FailLines(t) ==
    SelectSeq(emitted, LAMBDA l : l.flow = TaskTable[t].id /\ l.kind = "testFailed")

NonEmptyErrors(o) == HasErrors(o) /\ ResultOf(o).errors # <<>>

\* the resolution C9 states, each source passed over when it is absent or
\* empty: the test's own errors, then its suite's, then its file's, then
\* the synthetic error
ClaimedErrors(t) ==
    IF NonEmptyErrors(t) THEN ResultOf(t).errors
    ELSE IF NonEmptyErrors(TaskTable[t].suite) THEN ResultOf(TaskTable[t].suite).errors
    ELSE IF NonEmptyErrors(TaskTable[t].file) THEN ResultOf(TaskTable[t].file).errors
    ELSE <<MissingResultError(t)>>

\* no error in the test's own result, its suite's or its file's
NoErrorAnywhere(t) ==
    /\ ~NonEmptyErrors(t)
    /\ ~NonEmptyErrors(TaskTable[t].suite)
    /\ ~NonEmptyErrors(TaskTable[t].file)

\* the tests of the flushed file whose producer ran
RunTests == {t \in WalkedTests(FlushedFile) : TaskTable[t].mode # "skip"}

(***************************************************************************)
(* C8: at flush a test is a failure exactly when it has no result or its  *)
(* result state is fail, and failure lines are emitted for it if and only *)
(* if it is a failure.                                                     *)
(***************************************************************************)
C8_FailureLinesIffFail ==
    Flushed => \A t \in RunTests : (Pos(t, "testFailed") # {}) <=> Failed(t)

(***************************************************************************)
(* C9: the failure lines of a failing test carry, in order, the test's    *)
(* own errors; if those are absent or empty the suite's; if still absent  *)
(* the file's; otherwise the one synthetic missing-result error.           *)
(***************************************************************************)
C9_ErrorsResolved ==
    Flushed => \A t \in RunTests :
        Failed(t) =>
            FailLines(t) = [i \in 1..Len(ClaimedErrors(t)) |-> TestFail(t, ClaimedErrors(t)[i])]

(***************************************************************************)
(* C10: every test that is a failure at flush has at least one failure    *)
(* line; with no error anywhere in its own / suite / file results it has  *)
(* exactly one, carrying the synthetic missing-result error; with no      *)
(* result at all its finished line carries duration 0.                     *)
(***************************************************************************)
C10_AtLeastOneFailureLine ==
    Flushed => \A t \in RunTests :
        Failed(t) =>
            /\ Pos(t, "testFailed") # {}
            /\ NoErrorAnywhere(t) => FailLines(t) = <<TestFail(t, MissingResultError(t))>>
            /\ ResultOf(t) = NoResult => TestFinished(t, 0) \in Range(emitted)

(***************************************************************************)
(* Console logs in the emitted lines.                                      *)
(***************************************************************************)
\* the arrival numbers of the logs recorded under a test id
RecordedNums(id) ==
    IF id \in DOMAIN testConsoleMap
    THEN {testConsoleMap[id][i].content : i \in 1..Len(testConsoleMap[id])}
    ELSE {}

\* the positions from a test's started line to its finished line
FrameOf(t) ==
    UNION {s..f : s \in Pos(t, "testStarted"), f \in Pos(t, "testFinished")}

\* the log lines found between a test's started and finished lines, in
\* emitted order, whatever test they name
LogLinesIn(t) ==
    LET idx == SelectSeq([i \in 1..Len(emitted) |-> i],
                         LAMBDA i : i \in FrameOf(t) /\ emitted[i].kind = "testLog")
    IN [k \in 1..Len(idx) |-> emitted[idx[k]]]

(***************************************************************************)
(* C11: at the flush of a file, the log lines between the started and the *)
(* finished line of each of its tests are the logs recorded under that    *)
(* test's id, all of them, in the order they were recorded, whatever was  *)
(* recorded or registered in between; a log recorded under one id lies in *)
(* no other test's lines.                                                  *)
(***************************************************************************)
C11_LogsInRecordedOrder ==
    Flushed =>
        /\ \A t \in RunTests :
              LET ls == LogLinesIn(t)
              IN /\ Len(ls) = LogCount(t)
                 /\ {ls[i].num : i \in 1..Len(ls)} = RecordedNums(TaskTable[t].id)
                 /\ \A i, j \in 1..Len(ls) : i < j => ls[i].num < ls[j].num
                 /\ \A i \in 1..Len(ls) :
                       /\ ls[i].flow = TaskTable[t].id
                       /\ ls[i].text = IF ls[i].num % 2 = 1 THEN "stdout" ELSE "stderr"
        /\ \A p \in 1..Len(emitted) :
              emitted[p].kind = "testLog" =>
                 \E t \in RunTests :
                    p \in FrameOf(t) /\ emitted[p].num \in RecordedNums(TaskTable[t].id)

\* a flush after two logs for t1 shows them first to last in T1's lines; a
\* flush after one log for t1 and then one for t3 shows each in its own
C11_Witness ==
    /\ Flushed /\ FlushedFile = "FA"
    /\ \/ /\ Len(LogLinesIn("T1")) = 2
           /\ LogLinesIn("T1")[1].num = 1 /\ LogLinesIn("T1")[2].num = 2
           /\ call.after = "addTestConsoleLog"
       \/ /\ Len(LogLinesIn("T1")) = 1 /\ LogLinesIn("T1")[1].num = 1
           /\ Len(LogLinesIn("T3")) = 1 /\ LogLinesIn("T3")[1].num = 2

(***************************************************************************)
(* C12: console logs are retrievable once: after the flush that emits     *)
(* them the per-test buffer holds them no longer (so no later flush can   *)
(* emit them again), and nothing buffered for the flushed file remains:   *)
(* no pending entry and no console logs of any of its tests.               *)
(***************************************************************************)
C12_LogsDrainedAtFlush ==
    Flushed =>
        /\ call.id \notin DOMAIN fileMessageMap
        /\ \A t \in AllTests(FlushedFile) : TaskTable[t].id \notin DOMAIN testConsoleMap

(***************************************************************************)
(* C13: when the sink fails on a line during a flush, the failure leaves  *)
(* handeUpdate (the call has not completed), the lines handed over before *)
(* the failing line are exactly what the call emitted (nothing is taken   *)
(* back), and no line from the failing one on is handed over.              *)
(***************************************************************************)
C13_SinkFailureCutsFlush ==
    /\ (call.op = "handeUpdate" /\ call.failedAt # 0) =>
          /\ call.threw /\ ~call.flushed
          /\ call.failedAt \in 1..Len(PreOrder(FlushedFile))
          /\ emitted = SubSeq(PreOrder(FlushedFile), 1, call.failedAt - 1)
    /\ call.threw <=> (call.op = "handeUpdate" /\ call.failedAt # 0)

\* the sink threw on the third line of a flush: two lines are out, the
\* rest (at least two more) is not
C13_Witness ==
    /\ call.op = "handeUpdate" /\ call.threw /\ call.failedAt = 3
    /\ Len(emitted) = 2 /\ Len(PreOrder(FlushedFile)) >= 4
    /\ emitted[2].kind = "testStarted"

(***************************************************************************)
(* C14: when addFile is called for an id whose entry is still pending,    *)
(* the new registration takes the place of the old one: the map holds one *)
(* entry for the id, and the next completed flush of the id emits the     *)
(* lines of the second registration's tree, once, and no line that only   *)
(* the first registration's tree would give; then the id has no entry.     *)
(***************************************************************************)
C14_SecondRegistrationReplaces ==
    \A id \in FileIds :
        replaced[id] # "" =>
            /\ regCount[id] >= 2
            /\ (Flushed /\ call.id = id) =>
                  /\ emitted = PreOrder(regObj[id])
                  /\ Range(emitted) \cap
                        (Range(PreOrder(replaced[id])) \ Range(PreOrder(regObj[id]))) = {}
                  /\ id \notin DOMAIN fileMessageMap
            /\ id \in DOMAIN fileMessageMap \/ flushCount[id] >= 1

\* f1 registered with tree FA, then with tree FB, then flushed: the lines
\* are FB's, FA's nested suites and tests are not among them
C14_Witness ==
    /\ Flushed /\ call.id = "f1"
    /\ replaced["f1"] = "FA" /\ regObj["f1"] = "FB"
    /\ emitted = PreOrder("FB") /\ Pos("T3", "testStarted") = {}
    /\ Pos("T10", "testStarted") # {}

(***************************************************************************)
(* The tasks a summary is about.                                           *)
(***************************************************************************)
\* the last call built the summary, so the results are those it read
Summarized == call.op = "writeSummary" /\ summary.written

\* the root tasks handed to writeSummary
Roots == Range(toArray(summary.files))

\* every task strictly below a task, at any depth
RECURSIVE TasksBelow(_)
TasksBelow(o) ==
    UNION {{TaskTable[o].tasks[i]} \cup TasksBelow(TaskTable[o].tasks[i]) :
             i \in 1..Len(TaskTable[o].tasks)}

TasksBelowRoots == UNION {TasksBelow(r) : r \in Roots}

OfType(S, type) == {o \in S : TaskTable[o].type = type}

StateFail(o) == ResultOf(o).present /\ ResultOf(o).state = "fail"

(***************************************************************************)
(* C15: failedSuitesCount is the number of suite tasks of the run whose   *)
(* own result carries at least one error (a suite without errors or with  *)
(* an empty error list is not counted); when no test has failed and no    *)
(* suite carries an error, both failed counts are 0 and suiteErrors is    *)
(* empty.                                                                  *)
(***************************************************************************)
C15_FailedSuitesCarryAnError ==
    Summarized =>
        LET suites == OfType(Roots \cup TasksBelowRoots, "suite")
            tests == OfType(Roots \cup TasksBelowRoots, "test")
        IN /\ summary.failedSuitesCount =
                 Cardinality({x \in suites : NonEmptyErrors(x)})
           /\ ({x \in suites : NonEmptyErrors(x)} = {}
                  /\ {t \in tests : StateFail(t)} = {})
                 => /\ summary.failedSuitesCount = 0
                    /\ summary.failedTestsCount = 0
                    /\ summary.suiteErrors = <<>>

(***************************************************************************)
(* C16 as claimed: totalSuitesCount is the number of suite tasks below    *)
(* the files, nested ones included, the files themselves not counted;     *)
(* totalTestsCount is the number of test tasks at any depth;              *)
(* failedTestsCount is the number of those whose result state is fail.     *)
(***************************************************************************)
C16_TotalsWithoutFiles ==
    Summarized =>
        /\ summary.totalSuitesCount = Cardinality(OfType(TasksBelowRoots, "suite"))
        /\ summary.totalTestsCount = Cardinality(OfType(TasksBelowRoots, "test"))
        /\ summary.failedTestsCount =
              Cardinality({t \in OfType(TasksBelowRoots, "test") : StateFail(t)})

(***************************************************************************)
(* C16 amended: totalSuitesCount is the number of tasks of type suite     *)
(* among the root tasks and below them at any depth, whatever their mode  *)
(* (a file is a task of type suite and is counted); totalTestsCount is    *)
(* the number of tasks of type test or custom among the roots and below   *)
(* them at any depth; failedTestsCount is the number of those whose       *)
(* result is present with state fail.                                      *)
(***************************************************************************)
C16_TotalsWithFiles ==
    Summarized =>
        LET all == Roots \cup TasksBelowRoots
            atoms == OfType(all, "test") \cup OfType(all, "custom")
        IN /\ summary.totalSuitesCount = Cardinality(OfType(all, "suite"))
           /\ summary.totalTestsCount = Cardinality(atoms)
           /\ summary.failedTestsCount = Cardinality({t \in atoms : StateFail(t)})

\* two files holding three suites, nine tests and one custom task, four
\* of the tests failed: five suites and ten tests are counted
C16_Witness ==
    /\ Summarized /\ summary.files = ManyTasks(<<"FA", "FC">>)
    /\ result["T1"] = FailTwo
    /\ Cardinality(OfType(TasksBelowRoots, "suite")) = 3
    /\ summary.totalSuitesCount = 5 /\ summary.totalTestsCount = 10
    /\ summary.failedTestsCount = 4

(***************************************************************************)
(* Tasks that give no line.                                                *)
(***************************************************************************)
\* a task the walk passes over: a suite whose mode is not run, or a task
\* that is neither a test nor a suite
PassedOver(o) ==
    \/ TaskTable[o].type = "suite" /\ TaskTable[o].mode # "run"
    \/ TaskTable[o].type \notin {"test", "suite"}

\* the children of a task without those the walk passes over
KeptTasks(tasks) == SelectSeq(tasks, LAMBDA c : ~PassedOver(c))

\* the lines of a tree from which the passed-over tasks are taken out
RECURSIVE WalkKept(_)
RECURSIVE WalkKeptAll(_)
WalkKept(o) ==
    IF TaskTable[o].type = "test" THEN TestLines(o)
    ELSE <<SuitStarted(TaskTable[TaskTable[o].file].id, escape(TaskTable[o].name))>>
           \o WalkKeptAll(KeptTasks(TaskTable[o].tasks))
           \o <<SuitFinished(TaskTable[TaskTable[o].file].id, escape(TaskTable[o].name))>>

WalkKeptAll(tasks) ==
    IF tasks = <<>> THEN <<>> ELSE WalkKept(Head(tasks)) \o WalkKeptAll(Tail(tasks))

(***************************************************************************)
(* C17: a suite whose mode is not run, and a task that is neither a test  *)
(* nor a suite, gives no line at a flush: no suite-started line with its  *)
(* name and no line for any test below it, whatever that test's mode; the *)
(* lines of the other tasks are what the tree gives without it.            *)
(***************************************************************************)
C17_PassedOverGivesNoLine ==
    Flushed =>
        /\ \A o \in TasksBelow(FlushedFile) :
              PassedOver(o) =>
                 /\ \A i \in 1..Len(emitted) :
                       /\ emitted[i].name # escape(TaskTable[o].name)
                       /\ emitted[i].flow # TaskTable[o].id
                 /\ \A t \in OfType(TasksBelow(o), "test") : PosAny(t) = {}
        /\ emitted = WalkKept(FlushedFile)

\* the flush of a file holding a skipped suite (with a skipped and a todo
\* test) and a custom task between tests that do give lines
C17_Witness ==
    /\ Flushed /\ FlushedFile = "FA"
    /\ PassedOver("S3") /\ PassedOver("C1")
    /\ PosAny("T9") = {} /\ PosAny("T11") = {}
    /\ Pos("T8", "testStarted") # {} /\ Pos("T5", "testStarted") # {}
    /\ Opened(emitted, Len(emitted)) = 3

(***************************************************************************)
(* C18: when every registered file is in the end notified with a present  *)
(* result whose state is not run and the sink takes its lines, every      *)
(* pending file comes to be flushed whole and fileMessageMap ends up      *)
(* empty for good; and as long as a registered file gets no such          *)
(* notification its entry stays pending and no call emits a line for it.   *)
(***************************************************************************)
C18_PendingStep ==
    \A id \in FileIds :
        (/\ id \in DOMAIN fileMessageMap
         /\ ~(/\ call'.op = "handeUpdate" /\ call'.id = id
              /\ call'.res.present /\ call'.res.state # "run"))
        => /\ id \in DOMAIN fileMessageMap'
           /\ emitted' = <<>> \/ (call'.op = "handeUpdate" /\ call'.id # id)

C18_EventuallyFlushed ==
    /\ <>[](fileMessageMap = <<>>)
    /\ \A id \in FileIds :
          (id \in DOMAIN fileMessageMap) ~>
              (Flushed /\ call.id = id /\ emitted = PreOrder(regObj[id]))
    /\ [][C18_PendingStep]_vars

\* both files were registered and both have been flushed: nothing pending
C18_Witness ==
    /\ regCount["f1"] = 1 /\ regCount["f2"] = 1
    /\ flushCount["f1"] = 1 /\ flushCount["f2"] = 1
    /\ Flushed /\ fileMessageMap = <<>>

(***************************************************************************)
(* C19: when the sink fails during a flush, the file's entry is not       *)
(* deleted; a terminal notification for the same id that follows finds it *)
(* pending and flushes the file again from its first line: the lines the  *)
(* sink had taken before the failure are handed over a second time, at    *)
(* the head of the whole sequence.                                         *)
(***************************************************************************)
C19_EntryKeptStep ==
    (call'.op = "handeUpdate" /\ call'.threw) =>
        /\ fileMessageMap' = fileMessageMap
        /\ call'.id \in DOMAIN fileMessageMap'

C19_FlushedAgainFromFirstLine ==
    /\ [][C19_EntryKeptStep]_vars
    /\ []((call.op = "handeUpdate" /\ call.prior # <<>>) =>
            /\ call.flushed \/ call.threw
            /\ IsPrefix(call.prior, PreOrder(FlushedFile))
            /\ call.flushed =>
                  /\ emitted = PreOrder(FlushedFile)
                  /\ IsPrefix(call.prior, emitted)
                  /\ Len(call.prior) < Len(emitted))

\* the sink threw on the third line of f1's flush; the next notification
\* flushed f1 whole, its first two lines for the second time
C19_Witness ==
    /\ Flushed /\ call.id = "f1" /\ Len(call.prior) = 2
    /\ call.prior = SubSeq(emitted, 1, 2)
    /\ "f1" \notin DOMAIN fileMessageMap

(***************************************************************************)
(* C20: a flush is one uninterrupted step about one file.  The lines a    *)
(* notification hands to the sink are lines of its own file only, from    *)
(* the file's started line to its finished line when the flush completes, *)
(* so the blocks of two files never interleave in the sink's output; and  *)
(* a notification leaves the pending entry of every other file and every  *)
(* console-log buffer as they were.                                        *)
(***************************************************************************)
C20_IsolatedStep ==
    call'.op = "handeUpdate" =>
        /\ testConsoleMap' = testConsoleMap
        /\ \A id \in FileIds \ {call'.id} :
              /\ id \in DOMAIN fileMessageMap <=> id \in DOMAIN fileMessageMap'
              /\ id \in DOMAIN fileMessageMap => fileMessageMap'[id] = fileMessageMap[id]

C20_OneFilePerFlush ==
    /\ [][C20_IsolatedStep]_vars
    /\ [](emitted # <<>> =>
            /\ call.op = "handeUpdate"
            /\ \A i \in 1..Len(emitted) :
                  IF emitted[i].kind \in {"suiteStarted", "suiteFinished"}
                  THEN emitted[i].flow = call.id
                  ELSE emitted[i].flow \in {TaskTable[t].id : t \in AllTests(FlushedFile)}
            /\ emitted[1] = SuitStarted(call.id, escape(TaskTable[FlushedFile].name))
            /\ call.flushed =>
                  /\ Balanced(emitted)
                  /\ \A n \in 1..(Len(emitted) - 1) :
                        Closed(emitted, n) < Opened(emitted, n))

\* f1 is flushed while f2 is pending and a console log is buffered: f2's
\* entry and the buffer stay, and no line of f2's test is in the block
C20_Witness ==
    /\ Flushed /\ call.id = "f1"
    /\ DOMAIN fileMessageMap = {"f2"} /\ testConsoleMap # <<>>
    /\ PosAny("T7") = {} /\ Balanced(emitted)

====
